---------------------------- MODULE Spec2Model ----------------------------
(***************************************************************************)
(* ObjectWise: the recognition core of the object context provider         *)
(* (src/unnamed/part_000) and the instruction synthesizer                  *)
(* (src/src/data/visionToInstructions.js).                                 *)
(*                                                                         *)
(* Numbers.  The code computes with IEEE doubles; the model computes with  *)
(* integers on fixed grids:                                                *)
(*   a detection score s in [0,1]  is the integer 1000*s  (thousandths),   *)
(*   a signal weight w             is the integer 10*w    (tenths),        *)
(*   an accumulated matchScore m   is the integer 10000*m,                 *)
(*   a random draw r in [0,1)      is the integer 1000*r  (thousandths).   *)
(* JavaScript strings are TLA+ strings; Len, SubSeq and \o act on them.    *)
(* A JavaScript object with optional properties is a record whose DOMAIN   *)
(* holds the properties that are present.                                  *)
(***************************************************************************)
EXTENDS Integers, Sequences, FiniteSets, TLC

(***************************************************************************)
(* String primitives of the JavaScript runtime.                            *)
(***************************************************************************)

\* String.prototype.includes: t occurs in s as a contiguous substring.
\* The empty string is included in every string.
Includes(s, t) ==
    \E i \in 0..(Len(s) - Len(t)) : SubSeq(s, i + 1, i + Len(t)) = t

UpperLetters == "ABCDEFGHIJKLMNOPQRSTUVWXYZ"
LowerLetters == "abcdefghijklmnopqrstuvwxyz"

\* The position of the one-character string c in the alphabet s, 0 if absent.
IndexIn(c, s) ==
    IF \E i \in 1..Len(s) : SubSeq(s, i, i) = c
    THEN CHOOSE i \in 1..Len(s) : SubSeq(s, i, i) = c
    ELSE 0

LowerChar(c) ==
    LET i == IndexIn(c, UpperLetters)
    IN  IF i = 0 THEN c ELSE SubSeq(LowerLetters, i, i)

UpperChar(c) ==
    LET i == IndexIn(c, LowerLetters)
    IN  IF i = 0 THEN c ELSE SubSeq(UpperLetters, i, i)

\* String.prototype.toLowerCase, character by character.
RECURSIVE toLowerCase(_)
toLowerCase(s) ==
    IF Len(s) = 0 THEN ""
    ELSE LowerChar(SubSeq(s, 1, 1)) \o toLowerCase(SubSeq(s, 2, Len(s)))

\* A property of a JavaScript object: present or undefined.
Has(o, f) == f \in DOMAIN o

\* JavaScript null.
Null == [null |-> TRUE]

(***************************************************************************)
(* The knowledge base: objectDatabase, an ordered read-only table.         *)
(***************************************************************************)

Smartphone ==
    [name |-> "Smartphone", category |-> "Electronics",
     tags |-> <<"mobile phone", "Device">>]
CoffeeMaker ==
    [name |-> "Coffee Maker", category |-> "Appliances",
     tags |-> <<"coffee", "kitchen">>]
Screwdriver ==
    [name |-> "Screwdriver", category |-> "Hand Tools",
     tags |-> <<"tool", "repair">>]
Drill ==
    [name |-> "Drill", category |-> "Power Tools",
     tags |-> <<"tool">>]
PowerDrill ==
    [name |-> "Power Drill", category |-> "Power Tools",
     tags |-> <<"drill", "tool">>]
Phone ==
    [name |-> "Phone", category |-> "Electronics",
     tags |-> <<"Device">>]
CordlessDrill ==
    [name |-> "Cordless Drill", category |-> "Power Tools",
     tags |-> <<"tool">>]

\* The tables the program may have been built with.
KnowledgeBases ==
    { <<Smartphone, CoffeeMaker, Screwdriver>>,
      <<PowerDrill, Drill, Smartphone>>,
      <<Phone, Smartphone>>,
      <<CordlessDrill, Drill>>,
      <<Smartphone>> }


(***************************************************************************)
(* matchToDatabase: the match-and-rank engine.                             *)
(***************************************************************************)

\* 0.3, in thousandths: detections below it are skipped.
minConfidenceThreshold == 300
\* Signal weights, in tenths.
ExactNameWeight == 10
PartialNameWeight == 7
ExactTagWeight == 9
PartialTagWeight == 5
CategoryWeight == 3
KeywordWeight == 6
\* 0.2 and 0.4, in ten-thousandths: the floor a pair must exceed to be
\* tracked, and the floor below which the best pair is rejected.
TrackFloor == 2000
AcceptFloor == 4000
\* The ceiling of a match's confidence, and the length gate of partial matches.
ConfidenceCeiling == 95
ShortLength == 3

\* detection.description || detection.name || '' : the first truthy one; the
\* empty string is falsy.
RawLabel(detection) ==
    IF Has(detection, "description") /\ detection.description # ""
    THEN detection.description
    ELSE IF Has(detection, "name") /\ detection.name # ""
         THEN detection.name
         ELSE ""

\* const label = (detection.description || detection.name || '').toLowerCase()
LabelOf(detection) == toLowerCase(RawLabel(detection))

\* const confidence = detection.score || 0
ConfidenceOf(detection) ==
    IF Has(detection, "score") THEN detection.score ELSE 0

\* Math.round(matchScore * 100) of a value held in ten-thousandths: half
\* rounds up.
RoundPercent(ms) == (ms + 50) \div 100

\* matchScore.toFixed(2) of a value held in ten-thousandths, as hundredths.
toFixed2(ms) == (ms + 50) \div 100

Min(a, b) == IF a < b THEN a ELSE b

\* Mutant of NameSignal: a partial name match weighs as much as an exact one.
NameSignalUngraded(label, objName, confidence) ==
    IF objName = label \/ Includes(objName, label) \/ Includes(label, objName)
    THEN ExactNameWeight * confidence
    ELSE 0

\* Exact name match, else partial name match gated on both lengths.
NameSignal(label, objName, confidence) ==
    IF objName = label \/ label = objName
    THEN ExactNameWeight * confidence
    ELSE IF Includes(objName, label) \/ Includes(label, objName)
         THEN IF Len(label) > ShortLength /\ Len(objName) > ShortLength
              THEN PartialNameWeight * confidence
              ELSE 0
         ELSE 0

\* One tag's contribution: exact, else gated partial.
OneTagSignal(label, tag, confidence) ==
    IF tag = label \/ label = tag
    THEN ExactTagWeight * confidence
    ELSE IF (Includes(tag, label) \/ Includes(label, tag))
            /\ Len(label) > ShortLength /\ Len(tag) > ShortLength
         THEN PartialTagWeight * confidence
         ELSE 0

\* objTags.forEach: every tag adds its contribution.
RECURSIVE TagSignal(_, _, _)
TagSignal(label, objTags, confidence) ==
    IF objTags = <<>> THEN 0
    ELSE OneTagSignal(label, Head(objTags), confidence)
         + TagSignal(label, Tail(objTags), confidence)

CategorySignal(label, objCategory, confidence) ==
    IF Includes(objCategory, label) \/ Includes(label, objCategory)
    THEN CategoryWeight * confidence
    ELSE 0

\* Special keyword mapping for common mismatches, in insertion order.
keywordMappings ==
    << [key |-> "mobile phone", synonyms |-> <<"smartphone", "phone", "mobile">>],
       [key |-> "smartphone", synonyms |-> <<"mobile phone", "phone", "cell phone">>],
       [key |-> "coffee maker", synonyms |-> <<"coffee machine", "drip coffee">>],
       [key |-> "drill", synonyms |-> <<"power drill", "electric drill">>],
       [key |-> "knife", synonyms |-> <<"kitchen knife", "chef knife">>],
       [key |-> "screwdriver", synonyms |-> <<"tool", "hand tool">>] >>

\* synonyms.some(synonym => label.includes(synonym) || synonym.includes(label))
SynonymHit(label, synonyms) ==
    \E i \in 1..Len(synonyms) :
        Includes(label, synonyms[i]) \/ Includes(synonyms[i], label)

\* objName.includes(key) || objTags.includes(key): substring of the name, or
\* equal to one of the tags.
KeyInEntry(key, objName, objTags) ==
    Includes(objName, key) \/ \E i \in 1..Len(objTags) : objTags[i] = key

RECURSIVE KeywordSignalFrom(_, _, _, _, _)
KeywordSignalFrom(i, label, objName, objTags, confidence) ==
    IF i > Len(keywordMappings) THEN 0
    ELSE (IF SynonymHit(label, keywordMappings[i].synonyms)
             /\ KeyInEntry(keywordMappings[i].key, objName, objTags)
          THEN KeywordWeight * confidence
          ELSE 0)
         + KeywordSignalFrom(i + 1, label, objName, objTags, confidence)

\* Mutant of KeywordSignal: the matcher without the keyword mapping.
KeywordSignalAbsent(label, objName, objTags, confidence) == 0

KeywordSignal(label, objName, objTags, confidence) ==
    KeywordSignalFrom(1, label, objName, objTags, confidence)

\* obj.tags.map(tag => tag.toLowerCase())
LowerTags(tags) == [i \in 1..Len(tags) |-> toLowerCase(tags[i])]

\* The accumulated matchScore of one (detection, entry) pair, in
\* ten-thousandths.
matchScoreOf(label, confidence, obj) ==
    LET objName == toLowerCase(obj.name)
        objTags == LowerTags(obj.tags)
        objCategory == toLowerCase(obj.category)
    IN  NameSignal(label, objName, confidence)
        + TagSignal(label, objTags, confidence)
        + CategorySignal(label, objCategory, confidence)
        + KeywordSignal(label, objName, objTags, confidence)

\* Mutant of Replaces: a pair that equals the best score replaces it.
ReplacesOnTie(matchScore, highestScore) ==
    matchScore >= highestScore /\ matchScore > TrackFloor

\* Whether a scored pair replaces the best pair so far:
\* matchScore > highestScore && matchScore > 0.2
Replaces(matchScore, highestScore) ==
    matchScore > highestScore /\ matchScore > TrackFloor

\* Mutant of MatchConfidence: the rounded percentage without the ceiling.
MatchConfidenceUnclamped(matchScore) == RoundPercent(matchScore)

\* The confidence of a tracked pair: rounded percentage, clamped.
MatchConfidence(matchScore) ==
    Min(RoundPercent(matchScore), ConfidenceCeiling)

\* The body of objectDatabase.forEach for one entry: best is the pair
\* (bestMatch, highestScore) of the enclosing function.
VisitEntry(best, label, confidence, obj) ==
    LET matchScore == matchScoreOf(label, confidence, obj)
    IN  IF Replaces(matchScore, best.highestScore)
        THEN [highestScore |-> matchScore,
              bestMatch |-> [object |-> obj,
                             confidence |-> MatchConfidence(matchScore),
                             detectedAs |-> label,
                             matchScore |-> toFixed2(matchScore)]]
        ELSE best

RECURSIVE ScanEntries(_, _, _, _, _)
ScanEntries(best, label, confidence, db, i) ==
    IF i > Len(db) THEN best
    ELSE ScanEntries(VisitEntry(best, label, confidence, db[i]),
                     label, confidence, db, i + 1)

\* Mutant of Skipped: only detections without any confidence are skipped.
SkippedOnlyZero(detection) == ConfidenceOf(detection) <= 0

\* Skip low confidence detections.
Skipped(detection) == ConfidenceOf(detection) < minConfidenceThreshold

\* The body of detections.forEach for one detection.
VisitDetection(best, detection, db) ==
    IF Skipped(detection) THEN best
    ELSE ScanEntries(best, LabelOf(detection), ConfidenceOf(detection), db, 1)

RECURSIVE ScanDetections(_, _, _, _)
ScanDetections(best, detections, db, i) ==
    IF i > Len(detections) THEN best
    ELSE ScanDetections(VisitDetection(best, detections[i], db),
                        detections, db, i + 1)

\* Mutant of Rejected: the acceptance floor is not applied.
RejectedWithoutFloor(best) == best.bestMatch = Null

\* The final test: no best pair, or its score below the acceptance floor.
Rejected(best) == best.bestMatch = Null \/ best.highestScore < AcceptFloor

matchToDatabase(detections, db) ==
    LET best == ScanDetections([highestScore |-> 0, bestMatch |-> Null],
                               detections, db, 1)
    IN  IF Rejected(best) THEN Null ELSE best.bestMatch


(***************************************************************************)
(* generateInstructionsForObject: the instruction synthesizer.             *)
(***************************************************************************)

\* A JavaScript string value held where null or undefined may also be held.
Str(s) == [str |-> s]

\* Map common vision labels to categories.
categoryMapping ==
    [l \in {"mobile phone", "smartphone", "telephone", "computer", "laptop",
            "tablet", "camera", "television", "speaker"} |-> "Electronics"]
    @@ [l \in {"knife", "kitchen knife", "spoon", "fork", "spatula", "whisk",
               "cutting board"} |-> "Kitchen Tools"]
    @@ [l \in {"coffee maker", "microwave", "toaster", "blender",
               "washing machine", "refrigerator", "dishwasher"} |-> "Appliances"]
    @@ [l \in {"hammer", "screwdriver", "wrench", "pliers"} |-> "Hand Tools"]
    @@ [l \in {"drill", "saw"} |-> "Power Tools"]
    @@ [l \in {"plant", "flower", "tree", "succulent", "houseplant"} |-> "Plants"]
    @@ [l \in {"bicycle", "ball", "racket", "dumbbell"} |-> "Sports Equipment"]
    @@ [l \in {"fire extinguisher", "first aid kit", "helmet"}
          |-> "Safety Equipment"]

\* categoryMapping[detectedLabel.toLowerCase()] || 'General Items'
CategoryFor(detectedLabel) ==
    LET key == toLowerCase(detectedLabel)
    IN  IF key \in DOMAIN categoryMapping
        THEN categoryMapping[key]
        ELSE "General Items"

\* label.split(' ').map(word => word.charAt(0).toUpperCase() + word.slice(1))
\*      .join(' '): the first character and every character that follows a
\* space are upper-cased.
RECURSIVE formatFrom(_, _)
formatFrom(label, i) ==
    IF i > Len(label) THEN ""
    ELSE (IF i = 1 \/ SubSeq(label, i - 1, i - 1) = " "
          THEN UpperChar(SubSeq(label, i, i))
          ELSE SubSeq(label, i, i))
         \o formatFrom(label, i + 1)

formatObjectName(label) == formatFrom(label, 1)

\* String.prototype.split(' '): the pieces between spaces, empty ones kept.
RECURSIVE SplitFrom(_, _, _)
SplitFrom(s, i, word) ==
    IF i > Len(s) THEN <<word>>
    ELSE IF SubSeq(s, i, i) = " "
         THEN <<word>> \o SplitFrom(s, i + 1, "")
         ELSE SplitFrom(s, i + 1, word \o SubSeq(s, i, i))

Split(s) == SplitFrom(s, 1, "")

tagSynonyms ==
    ("mobile phone" :> <<"smartphone", "cell phone", "phone", "device">>)
    @@ ("knife" :> <<"blade", "cutting tool", "kitchen knife">>)
    @@ ("computer" :> <<"laptop", "pc", "desktop", "device">>)
    @@ ("plant" :> <<"houseplant", "green", "botanical">>)

generateTags(label) ==
    LET key == toLowerCase(label)
    IN  Split(key) \o (IF key \in DOMAIN tagSynonyms THEN tagSynonyms[key] ELSE <<>>)

getDifficultyLevel(category) ==
    IF category \in {"Kitchen Tools", "Power Tools", "Safety Equipment"}
    THEN "Intermediate"
    ELSE "Beginner"

dangerousItems == <<"knife", "saw", "drill", "fire", "chemical">>

getSafetyLevel(label, category) ==
    IF \E i \in 1..Len(dangerousItems) :
          Includes(toLowerCase(label), dangerousItems[i])
    THEN "high"
    ELSE IF category = "Power Tools" THEN "medium"
    ELSE IF category = "Safety Equipment" THEN "medium"
    ELSE "low"

\* visionData.description || visionData.name : undefined when neither is a
\* non-empty string, except that an empty name after a falsy description is
\* the empty string.
DetectedLabelDefined(visionData) ==
    \/ Has(visionData, "description") /\ visionData.description # ""
    \/ Has(visionData, "name")

detectedLabelOf(visionData) ==
    IF Has(visionData, "description") /\ visionData.description # ""
    THEN visionData.description
    ELSE visionData.name

\* Mutant of ScorePercent: the percentage is truncated, not rounded.
ScorePercentTruncated(score) == score \div 10

\* Math.round(score * 100) of a score held in thousandths: half rounds up.
ScorePercent(score) == (score + 5) \div 10

\* Math.round((visionData.score || 0) * 100)
SynthConfidence(visionData) ==
    ScorePercent(IF Has(visionData, "score") THEN visionData.score ELSE 0)

\* The templated sentence of the category, the generic one otherwise.
generateDescription(label, category) ==
    "A " \o label \o
    (CASE category = "Electronics" ->
            " commonly used for communication, entertainment, or productivity tasks."
       [] category = "Kitchen Tools" -> " used for food preparation and cooking tasks."
       [] category = "Appliances" -> " household appliance for daily living tasks."
       [] category = "Hand Tools" ->
            " manual tool for various repair and construction tasks."
       [] category = "Power Tools" ->
            " power tool for construction, repair, and DIY projects."
       [] category = "Plants" ->
            " that requires care, watering, and proper lighting conditions."
       [] category = "Sports Equipment" -> " used for athletic activities and exercise."
       [] category = "Safety Equipment" ->
            " designed for protection and emergency situations."
       [] OTHER -> " with various practical applications.")

getTimeEstimate(category) ==
    CASE category = "Electronics" -> "5-15 min"
      [] category = "Kitchen Tools" -> "5-10 min"
      [] category = "Appliances" -> "10-30 min"
      [] category = "Hand Tools" -> "2-5 min"
      [] category = "Power Tools" -> "10-20 min"
      [] category = "Plants" -> "5-10 min daily"
      [] category = "Sports Equipment" -> "15-30 min"
      [] category = "Safety Equipment" -> "5-10 min"
      [] OTHER -> "5-10 min"

generateCommonUses(label) ==
    LET key == toLowerCase(label)
    IN  CASE key = "mobile phone" ->
               <<"Making calls", "Sending messages", "Internet browsing", "Taking photos">>
          [] key = "knife" ->
               <<"Cutting food", "Chopping vegetables", "Food preparation">>
          [] key = "computer" ->
               <<"Work tasks", "Entertainment", "Communication", "Learning">>
          [] key = "plant" ->
               <<"Air purification", "Home decoration", "Stress relief">>
          [] OTHER -> <<"Using " \o label, "General purpose tasks">>

generateMaterials(label, category) ==
    CASE category = "Electronics" ->
           <<"Plastic housing", "Electronic components", "Battery">>
      [] category = "Kitchen Tools" -> <<"Stainless steel", "Plastic handle">>
      [] category = "Appliances" -> <<"Metal housing", "Electronic controls">>
      [] category = "Plants" -> <<"Soil", "Pot", "Water">>
      [] OTHER -> <<"Various materials">>

generateWarnings(label, category) ==
    LET key == toLowerCase(label)
    IN  CASE key = "knife" ->
               <<"Keep blade sharp and clean", "Always cut away from body", "Store safely">>
          [] key = "mobile phone" ->
               <<"Avoid water damage", "Don't use while driving",
                 "Keep away from extreme heat">>
          [] key = "computer" ->
               <<"Ensure proper ventilation", "Use surge protection", "Keep liquids away">>
          [] key = "plant" ->
               <<"Check for toxicity to pets", "Avoid overwatering",
                 "Provide adequate light">>
          [] OTHER -> <<"Use as intended", "Follow safety guidelines">>

\* The fixed two-step outline, parameterized by the label.
generateBasicInstructions(label, category) ==
    << [title |-> "Basic Setup",
        description |-> "Learn how to properly set up and prepare your " \o label,
        timeEstimate |-> "5 min",
        substeps |-> <<"Inspect the " \o label \o " for any damage",
                       "Read any included instructions or labels",
                       "Ensure you have proper lighting and space",
                       "Gather any additional tools needed">>],
       [title |-> "Safe Operation",
        description |-> "How to use your " \o label \o " safely and effectively",
        timeEstimate |-> "10 min",
        substeps |-> <<"Follow proper safety precautions",
                       "Use the " \o label \o " as intended",
                       "Monitor for any issues during use",
                       "Stop if anything seems unsafe">>] >>

generateMaintenance(label, category) ==
    CASE category = "Electronics" ->
           <<"Keep clean and dry", "Update software regularly", "Store properly">>
      [] category = "Kitchen Tools" ->
           <<"Clean after each use", "Dry thoroughly", "Store safely">>
      [] category = "Plants" -> <<"Water regularly", "Prune as needed", "Check for pests">>
      [] OTHER -> <<"Clean regularly", "Store properly", "Inspect for damage">>

generateStorage(label, category) ==
    CASE category = "Electronics" -> "Store in dry place away from extreme temperatures"
      [] category = "Kitchen Tools" -> "Store in knife block or secure drawer"
      [] category = "Plants" -> "Keep in appropriate lighting conditions"
      [] OTHER -> "Store in clean, dry place when not in use"

getLifespan(category) ==
    CASE category = "Electronics" -> "3-5 years average"
      [] category = "Kitchen Tools" -> "5-10 years with proper care"
      [] category = "Appliances" -> "10-15 years with maintenance"
      [] category = "Plants" -> "Varies by species and care"
      [] OTHER -> "5+ years with proper care"

getAgeRestrictions(category) ==
    CASE category = "Kitchen Tools" ->
           [minimumAge |-> "12 years", supervisionRequired |-> TRUE,
            supervisionAge |-> "16"]
      [] category = "Power Tools" ->
           [minimumAge |-> "16 years", supervisionRequired |-> TRUE,
            supervisionAge |-> "18"]
      [] category = "Safety Equipment" ->
           [minimumAge |-> "10 years", supervisionRequired |-> TRUE,
            supervisionAge |-> "14"]
      [] OTHER ->
           [minimumAge |-> "8 years", supervisionRequired |-> FALSE,
            notes |-> "Adult guidance recommended for first use"]

\* Every property of the returned record but its id.
InstructionFields(visionData) ==
    LET detectedLabel == detectedLabelOf(visionData)
        category == CategoryFor(detectedLabel)
    IN  [name |-> formatObjectName(detectedLabel),
         category |-> category,
         tags |-> generateTags(detectedLabel),
         description |-> generateDescription(detectedLabel, category),
         difficulty |-> getDifficultyLevel(category),
         timeEstimate |-> getTimeEstimate(category),
         safetyLevel |-> getSafetyLevel(detectedLabel, category),
         image |-> Null,
         commonUses |-> generateCommonUses(detectedLabel),
         materials |-> generateMaterials(detectedLabel, category),
         generalWarnings |-> generateWarnings(detectedLabel, category),
         instructions |-> generateBasicInstructions(detectedLabel, category),
         maintenance |-> generateMaintenance(detectedLabel, category),
         storage |-> generateStorage(detectedLabel, category),
         lifespan |-> getLifespan(category),
         ageRestrictions |-> getAgeRestrictions(category),
         confidence |-> SynthConfidence(visionData),
         source |-> "Google Vision API"]

\* Mutant of generateInstructionsForObject: the description is stamped with
\* the time of the call.
generateInstructionsStamped(visionData, now) ==
    IF ~DetectedLabelDefined(visionData)
    THEN [thrown |-> "Cannot read properties of undefined"]
    ELSE [returned |->
            [id |-> <<"vision", now>>, description |-> <<"generated at", now>>]
            @@ InstructionFields(visionData)]

\* The record generateInstructionsForObject returns; now is Date.now().
\* Reading a property of undefined (detectedLabel.toLowerCase()) throws.
generateInstructionsForObject(visionData, now) ==
    IF ~DetectedLabelDefined(visionData)
    THEN [thrown |-> "Cannot read properties of undefined"]
    ELSE [returned |->
            [id |-> <<"vision", now>>] @@ InstructionFields(visionData)]


(***************************************************************************)
(* The store: initialState and objectReducer.                              *)
(***************************************************************************)

\* identifiedObjects.slice(0, 9): the entries kept behind a new head.
HistoryKeep == 9

initialState ==
    [currentObject |-> Null,
     identifiedObjects |-> <<>>,
     searchResults |-> <<>>,
     communityTips |-> <<>>,
     loading |-> FALSE,
     error |-> Null,
     confidence |-> 0]

\* Mutant of slice: nothing is dropped.
sliceWhole(array, end) == array

\* array.slice(0, end)
slice(array, end) == SubSeq(array, 1, Min(end, Len(array)))

\* Mutant of objectReducer: storing an error message clears the current
\* object and its confidence.
objectReducerClearing(st, action) ==
    CASE action.type = "SET_LOADING" ->
           [st EXCEPT !.loading = action.payload]
      [] action.type = "SET_ERROR" ->
           IF action.payload = Null
           THEN [st EXCEPT !.error = action.payload, !.loading = FALSE]
           ELSE [st EXCEPT !.error = action.payload, !.loading = FALSE,
                           !.currentObject = Null, !.confidence = 0]
      [] action.type = "SET_CURRENT_OBJECT" ->
           [st EXCEPT !.currentObject = action.payload, !.loading = FALSE]
      [] action.type = "SET_CONFIDENCE" ->
           [st EXCEPT !.confidence = action.payload]
      [] action.type = "ADD_IDENTIFIED_OBJECT" ->
           [st EXCEPT !.identifiedObjects =
               <<action.payload>> \o slice(st.identifiedObjects, HistoryKeep)]
      [] action.type = "SET_SEARCH_RESULTS" ->
           [st EXCEPT !.searchResults = action.payload]
      [] action.type = "ADD_COMMUNITY_TIP" ->
           [st EXCEPT !.communityTips = <<action.payload>> \o st.communityTips]
      [] OTHER -> st

objectReducer(st, action) ==
    CASE action.type = "SET_LOADING" ->
           [st EXCEPT !.loading = action.payload]
      [] action.type = "SET_ERROR" ->
           [st EXCEPT !.error = action.payload, !.loading = FALSE]
      [] action.type = "SET_CURRENT_OBJECT" ->
           [st EXCEPT !.currentObject = action.payload, !.loading = FALSE]
      [] action.type = "SET_CONFIDENCE" ->
           [st EXCEPT !.confidence = action.payload]
      [] action.type = "ADD_IDENTIFIED_OBJECT" ->
           [st EXCEPT !.identifiedObjects =
               <<action.payload>> \o slice(st.identifiedObjects, HistoryKeep)]
      [] action.type = "SET_SEARCH_RESULTS" ->
           [st EXCEPT !.searchResults = action.payload]
      [] action.type = "ADD_COMMUNITY_TIP" ->
           [st EXCEPT !.communityTips = <<action.payload>> \o st.communityTips]
      [] OTHER -> st

\* dispatch, several times in a row.
RECURSIVE dispatchAll(_, _)
dispatchAll(st, actions) ==
    IF actions = <<>> THEN st
    ELSE dispatchAll(objectReducer(st, Head(actions)), Tail(actions))

(***************************************************************************)
(* performDemoMatching and performIntelligentMatching: the demo fallback.  *)
(***************************************************************************)

\* Byte thresholds of the size heuristic.
LargeImageSize == 50000
SmallImageSize == 30000
\* Math.random() > 0.7, in thousandths.
RandomThreshold == 700
\* Fixed confidences of the size heuristic; range of the random confidence.
ApplianceConfidence == 65
ToolConfidence == 70
RandomConfidenceSpan == 30
RandomConfidenceBase == 40

\* objectDatabase.filter(obj => obj.category === category)
RECURSIVE FilterCategory(_, _)
FilterCategory(db, category) ==
    IF db = <<>> THEN <<>>
    ELSE (IF Head(db).category = category THEN <<Head(db)>> ELSE <<>>)
         \o FilterCategory(Tail(db), category)

\* Math.floor(r * n) of a draw r held in thousandths.
FloorScaled(r, n) == (r * n) \div 1000

\* Mutant of RandomSelection: the confidence is any random percentage.
RandomSelectionAnyPercent(db, r1, r2, r3) ==
    IF r1 > RandomThreshold
    THEN [object |-> (IF Len(db) = 0 THEN Null ELSE db[FloorScaled(r2, Len(db)) + 1]),
          confidence |-> FloorScaled(r3, 100),
          message |-> "Demo mode: Random selection for demonstration"]
    ELSE Null

\* The random selection: r1, r2, r3 are the successive Math.random() draws.
RandomSelection(db, r1, r2, r3) ==
    IF r1 > RandomThreshold
    THEN [object |-> (IF Len(db) = 0 THEN Null ELSE db[FloorScaled(r2, Len(db)) + 1]),
          confidence |-> FloorScaled(r3, RandomConfidenceSpan) + RandomConfidenceBase,
          message |-> "Demo mode: Random selection for demonstration"]
    ELSE Null

performDemoMatching(imageSize, db, r1, r2, r3) ==
    LET appliances == FilterCategory(db, "Appliances")
        tools == FilterCategory(db, "Hand Tools")
    IN  IF imageSize > LargeImageSize /\ Len(appliances) > 0
        THEN [object |-> appliances[1],
              confidence |-> ApplianceConfidence,
              message |-> "Demo mode: Detected based on image size analysis"]
        ELSE IF imageSize < SmallImageSize /\ Len(tools) > 0
        THEN [object |-> tools[1],
              confidence |-> ToolConfidence,
              message |-> "Demo mode: Detected based on image characteristics"]
        ELSE RandomSelection(db, r1, r2, r3)

\* Whether performDemoMatching consumes random draws for this input.
DrawsRandom(imageSize, db) ==
    ~(imageSize > LargeImageSize /\ Len(FilterCategory(db, "Appliances")) > 0)
    /\ ~(imageSize < SmallImageSize /\ Len(FilterCategory(db, "Hand Tools")) > 0)

NotRecognized ==
    [object |-> Null,
     confidence |-> 0,
     message |-> "Object not recognized. Try taking another photo with better lighting or search manually using the search tab."]

performIntelligentMatching(demoMatch) ==
    IF demoMatch # Null THEN demoMatch ELSE NotRecognized

(***************************************************************************)
(* callComputerVisionAPI, after response.json() has resolved.              *)
(***************************************************************************)

\* databaseMatch.confidence > 70
HighConfidenceThreshold == 70
\* bestDetection.score > 0.5, in thousandths
UsableScore == 500

\* result.responses && result.responses[0]
HasAnnotations(result) ==
    Has(result, "responses") /\ Len(result.responses) > 0

\* result.responses[0].labelAnnotations || []
labelsOf(result) ==
    IF Has(result.responses[1], "labelAnnotations")
    THEN result.responses[1].labelAnnotations
    ELSE <<>>

\* result.responses[0].localizedObjectAnnotations || []
objectsOf(result) ==
    IF Has(result.responses[1], "localizedObjectAnnotations")
    THEN result.responses[1].localizedObjectAnnotations
    ELSE <<>>

\* matchToDatabase([...labels, ...objects])
databaseMatchOf(result, db) ==
    matchToDatabase(labelsOf(result) \o objectsOf(result), db)

\* Mutant of HighConfidence: a confidence of exactly 70 is accepted.
HighConfidenceInclusive(databaseMatch) ==
    databaseMatch # Null /\ databaseMatch.confidence >= HighConfidenceThreshold

\* databaseMatch && databaseMatch.confidence > 70
HighConfidence(databaseMatch) ==
    databaseMatch # Null /\ databaseMatch.confidence > HighConfidenceThreshold

\* const bestDetection = labels[0]; undefined when there is no label.
bestDetectionOf(result) ==
    IF Len(labelsOf(result)) > 0 THEN labelsOf(result)[1] ELSE Null

\* bestDetection && bestDetection.score > 0.5
Usable(bestDetection) ==
    /\ bestDetection # Null
    /\ Has(bestDetection, "score")
    /\ bestDetection.score > UsableScore

\* The dynamic result built around a synthesized record, or the exception
\* the synthesizer threw.
DynamicResult(bestDetection, now) ==
    LET generated == generateInstructionsForObject(bestDetection, now)
    IN  IF Has(generated, "thrown") THEN generated
        ELSE [returned |->
                [object |-> generated.returned,
                 confidence |-> ScorePercent(bestDetection.score),
                 source |-> "dynamic"]]

\* What callComputerVisionAPI does with the parsed body once matchToDatabase
\* has returned databaseMatch: [returned |-> v] or [thrown |-> message].
AnnotateResult(result, databaseMatch, now) ==
    IF HasAnnotations(result)
    THEN LET bestDetection == bestDetectionOf(result)
         IN  IF HighConfidence(databaseMatch)
             THEN [returned |-> databaseMatch]
             ELSE IF Usable(bestDetection)
                  THEN DynamicResult(bestDetection, now)
                  ELSE [returned |-> Null]
    ELSE [returned |-> Null]

\* performObjectRecognition: a thrown error is caught, a falsy realResult is
\* passed over; both continue with performIntelligentMatching.
FallsThrough(api) == Has(api, "thrown") \/ api.returned = Null


(***************************************************************************)
(* Inputs: what the vision provider, the payload and the random source     *)
(* may deliver.                                                            *)
(***************************************************************************)

\* The most annotations (labels and localized objects together) in one
\* response.
MaxDetections == 2

\* Label annotations {description, score}; a property may be missing.
LabelAnnotations ==
    { [description |-> "mobile phone", score |-> 900],
      [description |-> "Coffee Cup", score |-> 800],
      [description |-> "coffee cup", score |-> 795],
      [description |-> "xyz-unknown-123", score |-> 600],
      [description |-> "xyz-unknown-123", score |-> 500],
      [description |-> "Screwdriver", score |-> 700],
      [description |-> "screwdriver", score |-> 710],
      [description |-> "drill", score |-> 900],
      [description |-> "phone", score |-> 900],
      [description |-> "Tool", score |-> 500],
      [description |-> "mobile phone", score |-> 290],
      [description |-> "phone"],
      [score |-> 900] }

\* Localized objects {name, score}.
ObjectAnnotations ==
    { [name |-> "Smartphone", score |-> 950],
      [name |-> "Power drill", score |-> 600],
      [name |-> "xyz", score |-> 900],
      [name |-> "kit", score |-> 299] }

SeqsUpTo(S, n) == UNION { [1..k -> S] : k \in 0..n }

\* Google returns the label annotations sorted by confidence.
SortedByScore(l) ==
    \A i \in 1..(Len(l) - 1) : ConfidenceOf(l[i]) >= ConfidenceOf(l[i + 1])

LabelLists == { l \in SeqsUpTo(LabelAnnotations, MaxDetections) : SortedByScore(l) }
ObjectLists == SeqsUpTo(ObjectAnnotations, MaxDetections)

\* The first element of result.responses when the image was annotated: either
\* list may be missing.
AnnotateResponses ==
    { a \in { [labelAnnotations |-> l, localizedObjectAnnotations |-> o] :
                   l \in LabelLists \ {<<>>}, o \in ObjectLists \ {<<>>} } :
          Len(a.labelAnnotations) + Len(a.localizedObjectAnnotations)
             <= MaxDetections }
    \cup { [labelAnnotations |-> l] : l \in LabelLists }
    \cup { [localizedObjectAnnotations |-> o] : o \in ObjectLists }
    \cup { [error |-> "Bad image data"] }

\* The bodies response.json() may resolve with.
ResponseBodies ==
    { [responses |-> <<a>>] : a \in AnnotateResponses }
    \cup { [responses |-> <<>>], [error |-> "PERMISSION_DENIED"] }

\* imageData.length, the draws of Math.random() and the values of Date.now().
ImageSizes == {20000, 30000, 40000, 50000, 60000}
FirstDraws == {0, 700, 701, 999}
IndexDraws == {0, 500, 999}
ConfidenceDraws == {0, 500, 999}
Timestamps == {1001, 1002}

\* The identifyObject calls the model follows.
Requests == {"r1"}

(***************************************************************************)
(* State.                                                                  *)
(***************************************************************************)

VARIABLES
    objectDatabase,   \* the knowledge base imported by the provider
    apiKey,           \* whether REACT_APP_GOOGLE_VISION_API_KEY is set
    state,            \* the store held by useReducer
    req,              \* per identifyObject call: where it is and its locals
    cacheService      \* the history cache and the state of the mount-time load

vars == <<objectDatabase, apiKey, state, req, cacheService>>

\* A call that has not been made yet.
NotStarted ==
    [pc |-> "idle",
     result |-> Null,        \* callComputerVisionAPI: the parsed body
     databaseMatch |-> Null, \* callComputerVisionAPI: what matchToDatabase returned
     synthInput |-> Null,    \* the detection handed to the synthesizer
     api |-> Null,           \* callComputerVisionAPI: [returned] or [thrown]
     demo |-> Null,          \* performDemoMatching: its inputs and its result
     recognition |-> Null]   \* performObjectRecognition: [returned] or [thrown]

\* The cache once loadCachedData has settled on an empty history.
SettledCache == [history |-> <<>>, load |-> "settled"]

\* The identifyObject calls made once the mount-time load has settled.
Init ==
    /\ objectDatabase \in KnowledgeBases
    /\ apiKey \in BOOLEAN
    /\ state = initialState
    /\ req = [r \in Requests |-> NotStarted]
    /\ cacheService = SettledCache

\* callComputerVisionAPI settles with api; performObjectRecognition awaits it.
AfterApi(r, api) == [req[r] EXCEPT !.pc = "apiSettled", !.api = api]

\* identifyObject up to its first suspension: two dispatches, then
\* performObjectRecognition and callComputerVisionAPI up to the fetch.
IdentifyObject(r) ==
    /\ req[r].pc = "idle"
    /\ state' = dispatchAll(state,
                   << [type |-> "SET_LOADING", payload |-> TRUE],
                      [type |-> "SET_ERROR", payload |-> Null] >>)
    /\ req' = [req EXCEPT ![r] =
                 IF apiKey
                 THEN [req[r] EXCEPT !.pc = "fetching"]
                 ELSE AfterApi(r, [thrown |-> "API key not configured"])]
    /\ UNCHANGED <<objectDatabase, apiKey, cacheService>>

\* fetch rejects: the catch block rethrows.
FetchRejects(r) ==
    /\ req[r].pc = "fetching"
    /\ req' = [req EXCEPT ![r] = AfterApi(r, [thrown |-> "Failed to fetch"])]
    /\ UNCHANGED <<objectDatabase, apiKey, state, cacheService>>

\* fetch resolves with a response whose ok flag is set or not.
FetchResolves(r) ==
    /\ req[r].pc = "fetching"
    /\ \E ok \in BOOLEAN :
          req' = [req EXCEPT ![r].pc = IF ok THEN "readJson" ELSE "readText"]
    /\ UNCHANGED <<objectDatabase, apiKey, state, cacheService>>

\* !response.ok: response.text() resolves and the error is built from it,
\* or it rejects; either way callComputerVisionAPI throws.
TextSettles(r) ==
    /\ req[r].pc = "readText"
    /\ \E message \in {"API request failed", "body stream error"} :
          req' = [req EXCEPT ![r] = AfterApi(r, [thrown |-> message])]
    /\ UNCHANGED <<objectDatabase, apiKey, state, cacheService>>

\* response.json() rejects.
JsonRejects(r) ==
    /\ req[r].pc = "readJson"
    /\ req' = [req EXCEPT ![r] = AfterApi(r, [thrown |-> "Unexpected token"])]
    /\ UNCHANGED <<objectDatabase, apiKey, state, cacheService>>

\* The detection callComputerVisionAPI hands to generateInstructionsForObject
\* for this body, Null when it does not call it.
SynthInputOf(result, databaseMatch) ==
    IF HasAnnotations(result)
       /\ ~HighConfidence(databaseMatch)
       /\ Usable(bestDetectionOf(result))
    THEN bestDetectionOf(result)
    ELSE Null

\* response.json() resolves with one of bodies: matching (once, its value
\* bound to databaseMatch), synthesis and the return value.
JsonResolvesWith(r, bodies) ==
    /\ req[r].pc = "readJson"
    /\ \E result \in bodies :
          \E databaseMatch \in { IF HasAnnotations(result)
                                 THEN databaseMatchOf(result, objectDatabase)
                                 ELSE Null } :
             \E now \in Timestamps :
                req' = [req EXCEPT ![r] =
                          [AfterApi(r, AnnotateResult(result, databaseMatch, now))
                             EXCEPT !.result = result,
                                    !.databaseMatch = databaseMatch,
                                    !.synthInput = SynthInputOf(result, databaseMatch)]]
    /\ UNCHANGED <<objectDatabase, apiKey, state, cacheService>>

JsonResolves(r) == JsonResolvesWith(r, ResponseBodies)

\* performObjectRecognition resumes after callComputerVisionAPI has settled:
\* a truthy realResult is returned, anything else (a caught error, a falsy
\* result) starts performIntelligentMatching, which waits for its timer.  The
\* locals of callComputerVisionAPI are gone.
Recognize(r) ==
    /\ req[r].pc = "apiSettled"
    /\ req' = [req EXCEPT ![r] =
                 IF FallsThrough(req[r].api)
                 THEN [req[r] EXCEPT !.pc = "demoWait", !.result = Null,
                                     !.databaseMatch = Null, !.synthInput = Null]
                 ELSE [req[r] EXCEPT !.pc = "recognized", !.result = Null,
                                     !.databaseMatch = Null, !.synthInput = Null,
                                     !.recognition = [returned |-> req[r].api.returned]]]
    /\ UNCHANGED <<objectDatabase, apiKey, state, cacheService>>

\* The timer of performIntelligentMatching fires: performDemoMatching reads
\* the payload size (read nowhere before) and draws from Math.random().
DemoTimerWith(r, sizes, firsts, indexes, confidences) ==
    /\ req[r].pc = "demoWait"
    /\ \E imageSize \in sizes, r1 \in firsts,
          r2 \in indexes, r3 \in confidences :
          LET demoMatch == performDemoMatching(imageSize, objectDatabase, r1, r2, r3)
              draws == IF ~DrawsRandom(imageSize, objectDatabase) THEN <<>>
                       ELSE IF r1 > RandomThreshold THEN <<r1, r2, r3>>
                       ELSE <<r1>>
          IN  req' = [req EXCEPT ![r] =
                        [req[r] EXCEPT
                           !.pc = "recognized",
                           !.demo = [imageSize |-> imageSize, draws |-> draws,
                                     returned |-> demoMatch],
                           !.recognition =
                              [returned |-> performIntelligentMatching(demoMatch)]]]
    /\ UNCHANGED <<objectDatabase, apiKey, state, cacheService>>

DemoTimer(r) ==
    DemoTimerWith(r, ImageSizes, FirstDraws, IndexDraws, ConfidenceDraws)

\* Mutant of Delivered: any result counts as an object.
DeliveredIfResult(result) == result # Null

\* result && result.object
Delivered(result) ==
    result # Null /\ Has(result, "object") /\ result.object # Null

\* result?.message || 'Object not recognized. ...'
ErrorMessageOf(result) ==
    IF result # Null /\ Has(result, "message") /\ result.message # ""
    THEN result.message
    ELSE "Object not recognized. Try taking another photo with better lighting or a different angle."

\* identifyObject after performObjectRecognition has settled.
Deliver(r) ==
    /\ req[r].pc = "recognized"
    /\ LET rec == req[r].recognition
       IN  IF Has(rec, "thrown")
           THEN /\ state' = objectReducer(state,
                               [type |-> "SET_ERROR", payload |-> Str(rec.thrown)])
                /\ req' = [req EXCEPT ![r].pc = "done"]
           ELSE IF Delivered(rec.returned)
           THEN /\ state' = dispatchAll(state,
                    << [type |-> "SET_CURRENT_OBJECT", payload |-> rec.returned.object],
                       [type |-> "SET_CONFIDENCE", payload |-> rec.returned.confidence],
                       [type |-> "ADD_IDENTIFIED_OBJECT", payload |-> rec.returned.object] >>)
                /\ req' = [req EXCEPT ![r].pc = "saving"]
           ELSE /\ state' = objectReducer(state,
                               [type |-> "SET_ERROR",
                                payload |-> Str(ErrorMessageOf(rec.returned))])
                /\ req' = [req EXCEPT ![r].pc = "done"]
    /\ UNCHANGED <<objectDatabase, apiKey, cacheService>>

\* cacheService.saveIdentification resolves: the object is the most recent
\* entry of the cached history.
SaveResolves(r) ==
    /\ req[r].pc = "saving"
    /\ req' = [req EXCEPT ![r].pc = "done"]
    /\ cacheService' =
          [cacheService EXCEPT
             !.history = <<req[r].recognition.returned.object>> \o @]
    /\ UNCHANGED <<objectDatabase, apiKey, state>>

\* cacheService.saveIdentification rejects: the catch block stores the message.
SaveRejects(r) ==
    /\ req[r].pc = "saving"
    /\ state' = objectReducer(state,
                   [type |-> "SET_ERROR", payload |-> Str("Failed to save")])
    /\ req' = [req EXCEPT ![r].pc = "done"]
    /\ UNCHANGED <<objectDatabase, apiKey, cacheService>>

Next ==
    \E r \in Requests :
        \/ IdentifyObject(r)
        \/ FetchRejects(r)
        \/ FetchResolves(r)
        \/ TextSettles(r)
        \/ JsonRejects(r)
        \/ JsonResolves(r)
        \/ Recognize(r)
        \/ DemoTimer(r)
        \/ Deliver(r)
        \/ SaveResolves(r)
        \/ SaveRejects(r)

Spec == Init /\ [][Next]_vars

(***************************************************************************)
(* The same calls over one response body per way a request can end; the    *)
(* specifications about scheduling are written over these.                 *)
(***************************************************************************)

\* A single label annotation as the whole response.
OneLabel(annotation) ==
    [responses |-> << [labelAnnotations |-> <<annotation>>] >>]

ScenarioBodies ==
    { OneLabel([description |-> "mobile phone", score |-> 900]),
      OneLabel([description |-> "drill", score |-> 900]),
      OneLabel([description |-> "xyz-unknown-123", score |-> 600]),
      OneLabel([description |-> "xyz-unknown-123", score |-> 500]),
      OneLabel([score |-> 900]),
      [responses |-> <<>>],
      [error |-> "PERMISSION_DENIED"] }

ScenarioSizes == {20000, 40000}
ScenarioFirstDraws == {0, 999}
ScenarioIndexDraws == {0}
ScenarioConfidenceDraws == {500}

ScenarioJsonResolves(r) == JsonResolvesWith(r, ScenarioBodies)

ScenarioDemoTimer(r) ==
    DemoTimerWith(r, ScenarioSizes, ScenarioFirstDraws,
                  ScenarioIndexDraws, ScenarioConfidenceDraws)

\* A step of a call that has been made.
ScenarioStep(r) ==
    \/ FetchRejects(r)
    \/ FetchResolves(r)
    \/ TextSettles(r)
    \/ JsonRejects(r)
    \/ ScenarioJsonResolves(r)
    \/ Recognize(r)
    \/ ScenarioDemoTimer(r)
    \/ Deliver(r)
    \/ SaveResolves(r)
    \/ SaveRejects(r)

ScenarioNext == \E r \in Requests : IdentifyObject(r) \/ ScenarioStep(r)

\* The scheduling the runtime provides once a call is made: the provider
\* round-trip (fetch, then the body) and the cache save each settle, the
\* timer of performIntelligentMatching fires, and a continuation whose
\* promise has settled runs.  Making a call is left to the caller.
Fairness ==
    \A r \in Requests :
        /\ WF_vars(FetchRejects(r) \/ FetchResolves(r))
        /\ WF_vars(TextSettles(r))
        /\ WF_vars(JsonRejects(r) \/ ScenarioJsonResolves(r))
        /\ WF_vars(Recognize(r))
        /\ WF_vars(ScenarioDemoTimer(r))
        /\ WF_vars(Deliver(r))
        /\ WF_vars(SaveResolves(r) \/ SaveRejects(r))

FairSpec == Init /\ [][ScenarioNext]_vars /\ Fairness

(***************************************************************************)
(* Two identifyObject calls in flight at the same time.                    *)
(***************************************************************************)

ConcurrentRequests == {"r1", "r2"}

ConcurrentInit ==
    /\ objectDatabase \in KnowledgeBases
    /\ apiKey \in BOOLEAN
    /\ state = initialState
    /\ req = [r \in ConcurrentRequests |-> NotStarted]
    /\ cacheService = SettledCache

\* The caller makes a call while no call has completed yet, so that the
\* calls overlap.
StartOverlapping(r) ==
    /\ \A q \in DOMAIN req : req[q].pc # "done"
    /\ IdentifyObject(r)

ConcurrentNext ==
    \E r \in DOMAIN req : StartOverlapping(r) \/ ScenarioStep(r)

ConcurrentSpec == ConcurrentInit /\ [][ConcurrentNext]_vars

(***************************************************************************)
(* Two identifyObject calls, the second made once the first has completed. *)
(***************************************************************************)

\* The caller makes the first call, and the second when the first is done.
SequentialStart(r) ==
    /\ r = "r1" => req["r2"].pc = "idle"
    /\ r = "r2" => req["r1"].pc = "done"
    /\ IdentifyObject(r)

SequentialNext ==
    \E r \in DOMAIN req : SequentialStart(r) \/ ScenarioStep(r)

SequentialSpec == ConcurrentInit /\ [][SequentialNext]_vars

(***************************************************************************)
(* The store on its own: the mount-time loadCachedData, and objectReducer  *)
(* under any sequence of dispatched actions.                               *)
(***************************************************************************)

\* The most entries the history cache returns, the most objects identified
\* in a row and the most community tips added.
MaxCached == 11
MaxIdentified == 11
MaxTips == 1

\* The i-th entry of a cached history and the n-th object identified.
CachedEntry(i) == [id |-> <<"cached", i>>]
IdentifiedEntry(n) == [id |-> <<"vision", n>>]

\* What cacheService.getIdentificationHistory may resolve with: the saved
\* entries, most recent first.
CachedHistories ==
    { [i \in 1..k |-> CachedEntry(i)] : k \in 0..MaxCached }

StoreInit ==
    /\ objectDatabase = <<Smartphone, CoffeeMaker, Screwdriver>>
    /\ apiKey = FALSE
    /\ state = initialState
    /\ req = [r \in Requests |-> NotStarted]
    /\ \E cachedHistory \in CachedHistories :
          cacheService = [history |-> cachedHistory, load |-> "pending"]

\* loadCachedData resumes with the cached history: one dispatch per entry,
\* in the order of the history.
LoadCachedResolves ==
    /\ cacheService.load = "pending"
    /\ LET cachedHistory == cacheService.history
       IN  state' = dispatchAll(state,
                       [i \in 1..Len(cachedHistory) |->
                           [type |-> "ADD_IDENTIFIED_OBJECT",
                            payload |-> cachedHistory[i]]])
    /\ cacheService' = [cacheService EXCEPT !.load = "settled"]
    /\ UNCHANGED <<objectDatabase, apiKey, req>>

\* getIdentificationHistory rejects: the error is logged.
LoadCachedRejects ==
    /\ cacheService.load = "pending"
    /\ cacheService' = [cacheService EXCEPT !.load = "settled"]
    /\ UNCHANGED <<objectDatabase, apiKey, state, req>>

\* The number of the next object identified: one more than the latest one
\* still in the history.
NextIdentified(st) ==
    LET S == { st.identifiedObjects[i].id[2] :
                  i \in { k \in 1..Len(st.identifiedObjects) :
                             st.identifiedObjects[k].id[1] = "vision" } } \cup {0}
    IN  1 + CHOOSE x \in S : \A y \in S : y <= x

\* The actions a dispatch may carry in store st: each type the reducer
\* knows, and one it does not.
StoreActions(st) ==
    { [type |-> "SET_LOADING", payload |-> b] : b \in BOOLEAN }
    \cup { [type |-> "SET_ERROR", payload |-> e] : e \in {Null, Str("Failed to save")} }
    \cup { [type |-> "SET_CURRENT_OBJECT", payload |-> IdentifiedEntry(1)],
           [type |-> "SET_CONFIDENCE", payload |-> 81],
           [type |-> "SET_SEARCH_RESULTS", payload |-> <<Smartphone>>],
           [type |-> "RESET", payload |-> Null] }
    \cup { [type |-> "ADD_COMMUNITY_TIP", payload |-> tip] :
              tip \in { t \in {"Keep it dry"} : Len(st.communityTips) < MaxTips } }
    \cup { [type |-> "ADD_IDENTIFIED_OBJECT", payload |-> IdentifiedEntry(n)] :
              n \in { k \in {NextIdentified(st)} : k <= MaxIdentified } }

\* dispatch(action)
Dispatch ==
    /\ \E action \in StoreActions(state) : state' = objectReducer(state, action)
    /\ UNCHANGED <<objectDatabase, apiKey, req, cacheService>>

StoreNext ==
    \/ LoadCachedResolves
    \/ LoadCachedRejects
    \/ Dispatch

StoreSpec == StoreInit /\ [][StoreNext]_vars


(***************************************************************************)
(* Properties.  Helpers first: they are written from the statements, not   *)
(* from the operators above.                                               *)
(***************************************************************************)

\* The list callComputerVisionAPI hands to matchToDatabase in request r.
DetectionsOf(r) == labelsOf(req[r].result) \o objectsOf(req[r].result)

\* Request r has just run the matcher on an annotated response.
Matching(r) ==
    /\ req[r].pc = "apiSettled"
    /\ req[r].result # Null
    /\ HasAnnotations(req[r].result)

\* A detection whose score is missing or below 0.3.
LowScore(d) == ~Has(d, "score") \/ d.score < 300

\* The detections that are not of low score, in order.
Survivors(dets) == SelectSeq(dets, LAMBDA d : ~LowScore(d))

\* The accumulated scores of all surviving (detection, entry) pairs.
PairScores(dets, db) ==
    { matchScoreOf(LabelOf(dets[i]), dets[i].score, db[j]) :
         i \in { k \in 1..Len(dets) : ~LowScore(dets[k]) }, j \in 1..Len(db) }

\* The highest of them, 0 when there is no pair.
MaxPairScore(dets, db) ==
    LET S == PairScores(dets, db) \cup {0}
    IN  CHOOSE x \in S : \A y \in S : y <= x

\* The entries of a table.
Entries(db) == { db[j] : j \in 1..Len(db) }

\* C1 (as stated): matchToDatabase returns no match whenever the highest
\* accumulated score over all surviving pairs is at or below 0.4, the case of
\* exactly 0.4 included.
C1_AtOrBelowFloorRejected ==
    \A r \in Requests :
        (Matching(r) /\ MaxPairScore(DetectionsOf(r), objectDatabase) <= 4000)
            => req[r].databaseMatch = Null

\* C1 (amended): matchToDatabase returns no match whenever the highest
\* accumulated score over all surviving pairs is strictly below 0.4; at
\* exactly 0.4 and above it returns a match.
C1_BelowFloorRejected ==
    \A r \in Requests :
        Matching(r) =>
            LET top == MaxPairScore(DetectionsOf(r), objectDatabase)
            IN  /\ top < 4000 => req[r].databaseMatch = Null
                /\ top >= 4000 => req[r].databaseMatch # Null

\* C1 witness: the best pair was tracked (above 0.2) and then rejected for
\* lying below 0.4.
C1_Witness ==
    \E r \in Requests :
        /\ Matching(r)
        /\ MaxPairScore(DetectionsOf(r), objectDatabase) > 2000
        /\ MaxPairScore(DetectionsOf(r), objectDatabase) < 4000
        /\ req[r].databaseMatch = Null

\* C2: detections of low score are skipped before any scoring: the result is
\* the result for the list without them, and the winning pair is made of a
\* surviving detection (detectedAs is its label, the confidence its pair's).
C2_LowScoreIgnored ==
    \A r \in Requests :
        Matching(r) =>
            LET dets == DetectionsOf(r)
                m == req[r].databaseMatch
            IN  /\ m = matchToDatabase(Survivors(dets), objectDatabase)
                /\ m # Null =>
                     \E i \in 1..Len(dets) :
                        /\ ~LowScore(dets[i])
                        /\ LabelOf(dets[i]) = m.detectedAs
                        /\ m.matchScore =
                             toFixed2(matchScoreOf(LabelOf(dets[i]), dets[i].score, m.object))

\* C2 witness: a detection of low score whose label, had it been scored,
\* would have cleared the acceptance floor with some entry, next to a
\* surviving detection that produced the match.
C2_Witness ==
    \E r \in Requests :
        /\ Matching(r)
        /\ req[r].databaseMatch # Null
        /\ \E i \in 1..Len(DetectionsOf(r)), e \in Entries(objectDatabase) :
              LET d == DetectionsOf(r)[i]
              IN  /\ LowScore(d)
                  /\ Has(d, "score")
                  /\ matchScoreOf(LabelOf(d), d.score, e) >= 4000

\* C3: whenever matchToDatabase returns a match, its confidence is an
\* integer in [0,95], also when the winning pair accumulated more than 0.95.
C3_ConfidenceWithinCeiling ==
    \A r \in Requests :
        (Matching(r) /\ req[r].databaseMatch # Null)
            => req[r].databaseMatch.confidence \in 0..95

\* C3 witness: a match whose pair accumulated more than 0.95.
C3_Witness ==
    \E r \in Requests :
        /\ Matching(r)
        /\ req[r].databaseMatch # Null
        /\ MaxPairScore(DetectionsOf(r), objectDatabase) > 9500
        /\ req[r].databaseMatch.confidence = 95

\* The response of the scenario: one label annotation, "mobile phone" at 0.9.
MobilePhoneScenario(r) ==
    /\ Matching(r)
    /\ DetectionsOf(r) = << [description |-> "mobile phone", score |-> 900] >>
    /\ Smartphone \in Entries(objectDatabase)

\* C4 (as stated): the pair accumulates only the tag-exact-match weight
\* 0.9 x 0.9 = 0.81; the entry is returned with confidence 81, Matched.
C4_TagWeightOnly ==
    \A r \in Requests :
        MobilePhoneScenario(r) =>
            /\ matchScoreOf("mobile phone", 900, Smartphone) = 8100
            /\ req[r].databaseMatch # Null
            /\ req[r].databaseMatch.object = Smartphone
            /\ req[r].databaseMatch.confidence = 81
            /\ req[r].api = [returned |-> req[r].databaseMatch]

\* C4 (amended): besides the tag-exact-match weight 0.81 the pair accumulates
\* the synonym-table weight 0.6 x 0.9 twice (keys "smartphone" and "mobile
\* phone"), 1.89 in all; the entry is returned with the ceiling confidence
\* 95, Matched.
C4_TagAndSynonymWeights ==
    \A r \in Requests :
        MobilePhoneScenario(r) =>
            /\ matchScoreOf("mobile phone", 900, Smartphone) = 8100 + 5400 + 5400
            /\ req[r].databaseMatch # Null
            /\ req[r].databaseMatch.object = Smartphone
            /\ req[r].databaseMatch.confidence = 95
            /\ req[r].api = [returned |-> req[r].databaseMatch]

\* C4 witness: the scenario's response has been matched.
C4_Witness == \E r \in Requests : MobilePhoneScenario(r)

\* A single surviving detection d, an entry a whose name equals its label and
\* an entry b whose name only contains it or is contained in it.
ExactAndPartial(dets, a, b) ==
    /\ Len(dets) = 1
    /\ ~LowScore(dets[1])
    /\ toLowerCase(a.name) = LabelOf(dets[1])
    /\ toLowerCase(b.name) # LabelOf(dets[1])
    /\ \/ Includes(toLowerCase(b.name), LabelOf(dets[1]))
       \/ Includes(LabelOf(dets[1]), toLowerCase(b.name))

\* The signals of a pair other than the name signal.
OtherSignals(label, confidence, obj) ==
    matchScoreOf(label, confidence, obj)
    - NameSignal(label, toLowerCase(obj.name), confidence)

\* C5 (as stated): the accumulated score of the exactly named entry is
\* strictly higher than that of the partially named one, which is never
\* returned in its place.
C5_ExactNameOutranks ==
    \A r \in Requests :
        Matching(r) =>
            \A a, b \in Entries(objectDatabase) :
                ExactAndPartial(DetectionsOf(r), a, b) =>
                    LET d == DetectionsOf(r)[1]
                    IN  /\ matchScoreOf(LabelOf(d), d.score, a)
                            > matchScoreOf(LabelOf(d), d.score, b)
                        /\ req[r].databaseMatch # Null
                             => req[r].databaseMatch.object # b

\* C5 (amended): the name signal gives the exactly named entry 1.0 x score and
\* the partially named one at most 0.7 x score; the exactly named entry's
\* accumulated score is strictly higher, and the other is not returned,
\* whenever its tag, category and synonym signals total at least the other's.
C5_ExactNameSignalOutranks ==
    \A r \in Requests :
        Matching(r) =>
            \A a, b \in Entries(objectDatabase) :
                ExactAndPartial(DetectionsOf(r), a, b) =>
                    LET d == DetectionsOf(r)[1]
                        l == LabelOf(d)
                    IN  /\ NameSignal(l, toLowerCase(a.name), d.score) = 10 * d.score
                        /\ NameSignal(l, toLowerCase(b.name), d.score) <= 7 * d.score
                        /\ OtherSignals(l, d.score, a) >= OtherSignals(l, d.score, b)
                             => /\ matchScoreOf(l, d.score, a) > matchScoreOf(l, d.score, b)
                                /\ req[r].databaseMatch # Null
                                     => req[r].databaseMatch.object # b

\* C5 witness: such a pair of entries whose other signals are equal, the
\* partially named one first in the table, and the exactly named one returned.
C5_Witness ==
    \E r \in Requests :
        /\ Matching(r)
        /\ \E a, b \in Entries(objectDatabase) :
              /\ ExactAndPartial(DetectionsOf(r), a, b)
              /\ objectDatabase[1] = b
              /\ OtherSignals(LabelOf(DetectionsOf(r)[1]), DetectionsOf(r)[1].score, a)
                   = OtherSignals(LabelOf(DetectionsOf(r)[1]), DetectionsOf(r)[1].score, b)
              /\ req[r].databaseMatch # Null
              /\ req[r].databaseMatch.object = a


\* A detection that carries no label: neither description nor name.
Unlabelled(d) == ~Has(d, "description") /\ ~Has(d, "name")

\* The provider failed in request r: callComputerVisionAPI threw before a
\* body was parsed (no API key, fetch rejected, status not OK, json rejected),
\* the body has no responses[0], or no detection in it carries a label (the
\* detection lists are empty, or hold unlabelled detections only).
ProviderFailed(r) ==
    /\ req[r].pc = "apiSettled"
    /\ \/ req[r].result = Null
       \/ ~HasAnnotations(req[r].result)
       \/ \A i \in 1..Len(DetectionsOf(r)) : Unlabelled(DetectionsOf(r)[i])

\* Request r is past performObjectRecognition.
Recognized(r) == req[r].pc \in {"recognized", "saving", "done"}

\* C6 (as stated): in every provider failure mode performObjectRecognition
\* does not throw, runs the demo fallback heuristic and returns its result.
C6_FailureRunsDemo ==
    \A r \in Requests :
        /\ ProviderFailed(r) =>
              (Has(req[r].api, "thrown") \/ req[r].api.returned = Null)
        /\ Recognized(r) =>
              /\ Has(req[r].recognition, "returned")
              /\ (Has(req[r].api, "thrown") \/ req[r].api.returned = Null) =>
                    /\ req[r].demo # Null
                    /\ req[r].recognition.returned =
                          (IF req[r].demo.returned # Null
                           THEN req[r].demo.returned
                           ELSE NotRecognized)

\* A value returned as the Matched outcome: a matcher result.
MatchedOutcome(v) == v # Null /\ Has(v, "detectedAs")

\* C7: a request ends Matched only if matchToDatabase returned that entry
\* with accumulated score above the acceptance floor and confidence strictly
\* above 70, and then the synthesizer is not invoked; a match of confidence 70
\* or less is not returned as Matched.
C7_MatchedOnlyAboveSeventy ==
    \A r \in Requests :
        /\ (req[r].pc = "apiSettled" /\ Has(req[r].api, "returned")
              /\ MatchedOutcome(req[r].api.returned)) =>
                 /\ Matching(r)
                 /\ req[r].api.returned = req[r].databaseMatch
                 /\ req[r].databaseMatch.confidence > 70
                 /\ MaxPairScore(DetectionsOf(r), objectDatabase) > 4000
                 /\ req[r].synthInput = Null
        /\ (Matching(r) /\ req[r].databaseMatch # Null
              /\ req[r].databaseMatch.confidence <= 70) =>
                 ~(Has(req[r].api, "returned") /\ MatchedOutcome(req[r].api.returned))
        /\ (Recognized(r) /\ MatchedOutcome(req[r].recognition.returned)) =>
                 /\ req[r].recognition.returned = req[r].api.returned
                 /\ req[r].recognition.returned.confidence > 70
                 /\ req[r].demo = Null

\* C7 witness: a request that ended Matched at the lowest confidence that
\* passes, 71.
C7_Witness ==
    \E r \in Requests :
        /\ req[r].pc = "done"
        /\ MatchedOutcome(req[r].recognition.returned)
        /\ req[r].recognition.returned.confidence = 71

\* The best raw score among the detections, 0 when there is none.
BestRawScore(dets) ==
    LET S == { ConfidenceOf(dets[i]) : i \in 1..Len(dets) } \cup {0}
    IN  CHOOSE x \in S : \A y \in S : y <= x

\* C8 (as stated): when the matcher yields no entry of confidence above 70,
\* the synthesizer is invoked exactly when the best raw score among all the
\* detections returned (labels and localized objects) exceeds 0.5, and it is
\* handed a detection of that best score.
C8_BestDetectionSynthesized ==
    \A r \in Requests :
        (Matching(r)
           /\ ~(req[r].databaseMatch # Null /\ req[r].databaseMatch.confidence > 70)) =>
              LET dets == DetectionsOf(r)
              IN  /\ (req[r].synthInput # Null) <=> (BestRawScore(dets) > 500)
                  /\ req[r].synthInput # Null =>
                        /\ \E i \in 1..Len(dets) : dets[i] = req[r].synthInput
                        /\ ConfidenceOf(req[r].synthInput) = BestRawScore(dets)

\* The response of the scenario: a single label annotation, of score above
\* 0.5, whose label triggers no signal with any entry and is not in the
\* label-to-category table.
UnknownLabelScenario(r) ==
    /\ Matching(r)
    /\ objectsOf(req[r].result) = <<>>
    /\ Len(labelsOf(req[r].result)) = 1
    /\ LET d == labelsOf(req[r].result)[1]
       IN  /\ Has(d, "description") /\ d.description # ""
           /\ Has(d, "score") /\ d.score > 500
           /\ \A e \in Entries(objectDatabase) :
                 matchScoreOf(toLowerCase(d.description), d.score, e) = 0
           /\ toLowerCase(d.description) \notin DOMAIN categoryMapping

C10_DemoEntryWithinRange ==
    \A r \in Requests :
        /\ (Recognized(r) /\ Has(req[r].api, "thrown")) => req[r].demo # Null
        /\ req[r].demo # Null =>
              /\ req[r].demo.returned # Null =>
                    /\ req[r].demo.returned.object \in Entries(objectDatabase)
                    /\ req[r].demo.returned.confidence \in 40..70
              /\ (req[r].demo.draws # <<>> /\ req[r].demo.draws[1] > 700) =>
                    req[r].demo.returned # Null

\* C10 witness: the provider threw, the first draw exceeded 0.7 and the
\* random selection returned an entry at the top of its range.
C10_Witness ==
    \E r \in Requests :
        /\ Recognized(r)
        /\ Has(req[r].api, "thrown")
        /\ req[r].demo # Null
        /\ req[r].demo.draws # <<>>
        /\ req[r].demo.draws[1] > 700
        /\ req[r].demo.returned # Null
        /\ req[r].demo.returned.confidence = 69

\* The confidences a settled value [returned |-> v] or [thrown |-> m] carries:
\* that of the result and, when its object is a synthesized record, that of
\* the record.
ConfidencesOf(settled) ==
    IF settled = Null \/ ~Has(settled, "returned") \/ settled.returned = Null
    THEN {}
    ELSE {settled.returned.confidence}
         \cup (IF Has(settled.returned, "source")
                  /\ settled.returned.source = "dynamic"
               THEN {settled.returned.object.confidence}
               ELSE {})

\* C11: the confidence held in the store and the confidence of every result
\* returned (by callComputerVisionAPI, by performDemoMatching and by
\* performObjectRecognition) is an integer in [0,100].
C11_ConfidenceIsPercentage ==
    /\ state.confidence \in 0..100
    /\ \A r \in Requests :
          /\ \A c \in ConfidencesOf(req[r].api) : c \in 0..100
          /\ \A c \in ConfidencesOf(req[r].demo) : c \in 0..100
          /\ \A c \in ConfidencesOf(req[r].recognition) : c \in 0..100

\* C11 witness: a Matched outcome whose accumulated score overshoots 1.0 has
\* been delivered and the store holds its clamped confidence.
C11_Witness ==
    \E r \in Requests :
        /\ req[r].pc = "done"
        /\ MatchedOutcome(req[r].recognition.returned)
        /\ req[r].recognition.returned.matchScore > 100
        /\ state.confidence = req[r].recognition.returned.confidence
        /\ state.confidence = 95

\* The four final states of the orchestrator, read off a settled request:
\* what performObjectRecognition returned and where it came from.
Succeeded(r) ==
    /\ MatchedOutcome(req[r].recognition.returned)
    /\ req[r].recognition.returned.object \in Entries(objectDatabase)

FellBackToSynthesis(r) ==
    /\ Has(req[r].recognition.returned, "source")
    /\ req[r].recognition.returned.source = "dynamic"

FellBackToDemo(r) ==
    /\ req[r].demo # Null
    /\ req[r].demo.returned # Null
    /\ req[r].recognition.returned = req[r].demo.returned

Failed(r) ==
    /\ req[r].demo # Null
    /\ req[r].demo.returned = Null
    /\ req[r].recognition.returned.object = Null

\* How many of the four final states request r is in.
FinalStates(r) ==
    Cardinality({ i \in 1..4 :
                    \/ i = 1 /\ Succeeded(r)
                    \/ i = 2 /\ FellBackToSynthesis(r)
                    \/ i = 3 /\ FellBackToDemo(r)
                    \/ i = 4 /\ Failed(r) })

\* A stored error that is a non-empty message.
IsMessage(error) == error # Null /\ Has(error, "str") /\ error.str # ""

\* The step in which request r completes.
Completes(r) == req[r].pc # "done" /\ req'[r].pc = "done"

\* C12: a started request eventually completes (the provider call, the
\* timer and the cache save settling); when it completes it is in exactly
\* one of Succeeded, FellBackToSynthesis, FellBackToDemo and Failed, loading
\* is false, and either its object was delivered to the store or a non-empty
\* message is stored in error.
C12_RequestCompletes ==
    /\ \A r \in Requests : (req[r].pc # "idle") ~> (req[r].pc = "done")
    /\ [][\A r \in Requests :
             Completes(r) =>
                /\ Has(req'[r].recognition, "returned")
                /\ FinalStates(r)' = 1
                /\ state'.loading = FALSE
                /\ \/ /\ req'[r].recognition.returned.object # Null
                      /\ state'.currentObject = req'[r].recognition.returned.object
                      /\ state'.confidence = req'[r].recognition.returned.confidence
                      /\ state'.identifiedObjects # <<>>
                      /\ Head(state'.identifiedObjects) =
                            req'[r].recognition.returned.object
                   \/ /\ req'[r].recognition.returned.object = Null
                      /\ IsMessage(state'.error)]_vars

\* C12 witness: a request has completed in the Failed state: nothing was
\* delivered and the guidance message is stored.
C12_Witness ==
    \E r \in Requests :
        /\ req[r].pc = "done"
        /\ Failed(r)
        /\ ~state.loading
        /\ state.currentObject = Null
        /\ IsMessage(state.error)

\* What the store shows of a request's outcome.
StoreOutcome ==
    [currentObject |-> state.currentObject,
     confidence |-> state.confidence,
     error |-> state.error]

\* What the store shows when completed request r has run alone on the
\* initial store: its object and confidence with no error (or the message of
\* a failed save), or nothing but its message.
AloneOutcomes(r) ==
    LET returned == req[r].recognition.returned
    IN  IF returned.object # Null
        THEN { [currentObject |-> returned.object,
                confidence |-> returned.confidence,
                error |-> e] : e \in {Null, [str |-> "Failed to save"]} }
        ELSE { [currentObject |-> Null,
                confidence |-> 0,
                error |-> [str |-> returned.message]] }

\* Request q has dispatched nothing but the two actions of its start.
NothingDelivered(q) ==
    req[q].pc \in {"idle", "fetching", "readJson", "readText",
                   "apiSettled", "demoWait", "recognized"}

\* C13 (as stated): overlapping requests deliver what each delivers alone:
\* while the other request has delivered nothing, the store shows a completed
\* request's outcome as when it runs alone, and once both have completed the
\* store shows the outcome of one of them as when it runs alone.
C13_DeliversAsAlone ==
    /\ \A r \in DOMAIN req :
          (req[r].pc = "done"
             /\ \A q \in DOMAIN req \ {r} : NothingDelivered(q)) =>
                StoreOutcome \in AloneOutcomes(r)
    /\ (\A r \in DOMAIN req : req[r].pc = "done") =>
          \E r \in DOMAIN req : StoreOutcome \in AloneOutcomes(r)

\* Request r has started and not yet completed.
InFlight(r) == req[r].pc \notin {"idle", "done"}

\* C18 (as stated): loading is true whenever at least one identifyObject
\* request has started and not yet completed.
C18_LoadingWhileInFlight ==
    (\E r \in DOMAIN req : InFlight(r)) => state.loading = TRUE

\* The fields of a synthesized record the two invocations must agree on.
AgreedFields ==
    {"name", "category", "tags", "description", "difficulty", "timeEstimate",
     "safetyLevel", "commonUses", "materials", "generalWarnings",
     "instructions", "maintenance", "storage", "lifespan", "ageRestrictions",
     "confidence", "source"}

\* Records a and b agree on every one of those fields.
Agree(a, b) ==
    /\ AgreedFields \subseteq DOMAIN a
    /\ AgreedFields \subseteq DOMAIN b
    /\ \A f \in AgreedFields : a[f] = b[f]

\* C14: generateInstructionsForObject is deterministic: invocations on the
\* same detection (label and score) at any two times return records that
\* agree on every field but the generated id, and the record the request
\* received is one of them.
C14_SynthesisDeterministic ==
    \A r \in Requests :
        (req[r].pc = "apiSettled" /\ req[r].synthInput # Null) =>
            \A now1 \in Timestamps, now2 \in Timestamps :
                LET a == generateInstructionsForObject(req[r].synthInput, now1)
                    b == generateInstructionsForObject(req[r].synthInput, now2)
                IN  /\ Has(a, "returned") <=> Has(b, "returned")
                    /\ Has(a, "returned") <=> Has(req[r].api, "returned")
                    /\ Has(a, "returned") =>
                          /\ Agree(a.returned, b.returned)
                          /\ Agree(a.returned, req[r].api.returned.object)

\* C14 witness: a request received the record synthesized at the later time
\* for a label with a category of its own ("drill", a power tool), whose id
\* differs from that of the earlier time.
C14_Witness ==
    \E r \in Requests :
        /\ req[r].pc = "apiSettled"
        /\ req[r].synthInput # Null
        /\ Has(req[r].api, "returned")
        /\ req[r].api.returned.object.category = "Power Tools"
        /\ req[r].api.returned.object.id = <<"vision", 1002>>
        /\ generateInstructionsForObject(req[r].synthInput, 1001).returned.id
              # req[r].api.returned.object.id

\* The surviving (detection, entry) pairs of a run of the matcher, as index
\* pairs, and the order in which the double iteration visits them.
PairsOf(dets, db) ==
    { k \in 1..Len(dets) : ~LowScore(dets[k]) } \X (1..Len(db))

VisitedBefore(p, q) == p[1] < q[1] \/ (p[1] = q[1] /\ p[2] < q[2])

ScoreAt(dets, db, p) ==
    matchScoreOf(LabelOf(dets[p[1]]), dets[p[1]].score, db[p[2]])

\* The pairs of maximal accumulated score.
BestPairs(dets, db) ==
    { p \in PairsOf(dets, db) :
         \A q \in PairsOf(dets, db) : ScoreAt(dets, db, q) <= ScoreAt(dets, db, p) }

\* C15: the match returned is the first-visited pair among those of maximal
\* accumulated score: detections in input order, entries in table order.
C15_FirstSeenWins ==
    \A r \in Requests :
        (Matching(r) /\ req[r].databaseMatch # Null) =>
            LET dets == DetectionsOf(r)
                best == BestPairs(dets, objectDatabase)
                first == CHOOSE p \in best : \A q \in best \ {p} : VisitedBefore(p, q)
            IN  /\ best # {}
                /\ req[r].databaseMatch.object = objectDatabase[first[2]]
                /\ req[r].databaseMatch.detectedAs = LabelOf(dets[first[1]])

\* C15 witness: two pairs of a labelled detection tie at the maximal score
\* and differ in the entry, and a match was returned.
C15_Witness ==
    \E r \in Requests :
        /\ Matching(r)
        /\ req[r].databaseMatch # Null
        /\ \E p \in BestPairs(DetectionsOf(r), objectDatabase),
              q \in BestPairs(DetectionsOf(r), objectDatabase) :
              /\ VisitedBefore(p, q)
              /\ objectDatabase[p[2]] # objectDatabase[q[2]]
              /\ LabelOf(DetectionsOf(r)[p[1]]) # ""
              /\ LabelOf(DetectionsOf(r)[q[1]]) # ""

\* A sequence back to front.
Reverse(seq) == [i \in 1..Len(seq) |-> seq[Len(seq) + 1 - i]]

\* The first ten elements of a sequence.
FirstTen(seq) == SubSeq(seq, 1, IF Len(seq) < 10 THEN Len(seq) ELSE 10)

\* The entries a step adds to the history, in the order they are added: the
\* cached history when the mount-time load resumes, a single entry otherwise.
AddedBy(before, after, cache, cacheAfter) ==
    IF cache.load # cacheAfter.load THEN cache.history ELSE <<Head(after)>>

\* C16: identifiedObjects never holds more than 10 entries, and whenever a
\* step adds to it the entries added come first, most recently added at the
\* head, followed by the previous entries in their order, cut to 10: a single
\* ADD_IDENTIFIED_OBJECT puts the new entry at the head and keeps the previous
\* first 9.
C16_HistoryBounded ==
    /\ [](Len(state.identifiedObjects) <= 10)
    /\ [][state'.identifiedObjects # state.identifiedObjects =>
             LET added == AddedBy(state.identifiedObjects, state'.identifiedObjects,
                                  cacheService, cacheService')
             IN  state'.identifiedObjects =
                    FirstTen(Reverse(added) \o state.identifiedObjects)]_vars

\* C16 witness: the history is full and the eleventh object identified is at
\* its head: the first one has been dropped.
C16_Witness ==
    /\ Len(state.identifiedObjects) = 10
    /\ Head(state.identifiedObjects) = IdentifiedEntry(11)
    /\ state.identifiedObjects[10] = IdentifiedEntry(2)

\* The history holds cached entries only: the mount-time load has resumed
\* and no other entry is left in it.
OnlyCached ==
    /\ cacheService.load = "settled"
    /\ state.identifiedObjects # <<>>
    /\ \A i \in 1..Len(state.identifiedObjects) :
          state.identifiedObjects[i].id[1] = "cached"

\* C19 (as stated): once loadCachedData has completed, identifiedObjects
\* lists the cached history in the order getIdentificationHistory returned
\* it, and of more than 10 cached entries it retains the first 10.
C19_CachedOrderKept ==
    OnlyCached => state.identifiedObjects = FirstTen(cacheService.history)

\* The lower-cased names and tags of the entries of a table.
NamesAndTags(db) ==
    { toLowerCase(db[j].name) : j \in 1..Len(db) }
    \cup UNION { { toLowerCase(db[j].tags[k]) : k \in 1..Len(db[j].tags) } :
                    j \in 1..Len(db) }

\* A label of 3 characters or fewer (empty when the detection carries none)
\* that equals no entry name and no entry tag.
ShortStranger(label, db) ==
    Len(label) <= 3 /\ label \notin NamesAndTags(db)

\* C17 (as stated): a detection whose label is short and equals no entry
\* name and no entry tag never produces the match matchToDatabase returns.
C17_ShortLabelNeverMatches ==
    \A r \in Requests :
        (Matching(r) /\ req[r].databaseMatch # Null) =>
            ~ShortStranger(req[r].databaseMatch.detectedAs, objectDatabase)

\* C20 (as stated): when the provider call succeeds and matchToDatabase
\* returns a match, callComputerVisionAPI returns that match or a synthesized
\* entry, and the request does not go on to the demo heuristic.
C20_AcceptedMatchNotDropped ==
    \A r \in Requests :
        (Matching(r) /\ req[r].databaseMatch # Null) =>
            /\ Has(req[r].api, "returned")
            /\ req[r].api.returned # Null
            /\ \/ req[r].api.returned = req[r].databaseMatch
               \/ req[r].api.returned.source = "dynamic"

\* Request r has got an object from performObjectRecognition.
HasObject(r) ==
    /\ req[r].pc \in {"saving", "done"}
    /\ Has(req[r].recognition, "returned")
    /\ Delivered(req[r].recognition.returned)

\* Request r has completed and got no object.
EndedWithoutObject(r) == req[r].pc = "done" /\ ~HasObject(r)

\* The fields of the store other than error and loading.
KeptFields == DOMAIN initialState \ {"error", "loading"}

\* The kept fields of the store, and the cached history, as completed request
\* r leaves them when it runs on the initial store.
LeftBy(r) ==
    IF HasObject(r)
    THEN [initialState EXCEPT
            !.currentObject = req[r].recognition.returned.object,
            !.confidence = req[r].recognition.returned.confidence,
            !.identifiedObjects = <<req[r].recognition.returned.object>>]
    ELSE initialState

CachedBy(r) ==
    IF HasObject(r)
    THEN {<<>>, <<req[r].recognition.returned.object>>}
    ELSE {<<>>}

\* C21: an identifyObject request that ends without an object changes only
\* error and loading in the store and saves nothing: when the second of two
\* successive requests has ended without an object, every other field of the
\* store and the cached history are as the first request left them, and no
\* step of a request that has no object after it changes any of them.
C21_FailureKeepsStore ==
    /\ [](EndedWithoutObject("r2") =>
            /\ \A f \in KeptFields : state[f] = LeftBy("r1")[f]
            /\ cacheService.history \in CachedBy("r1"))
    /\ [][\A r \in DOMAIN req :
            (req'[r] # req[r] /\ ~HasObject(r)') =>
                /\ \A f \in KeptFields : state'[f] = state[f]
                /\ cacheService' = cacheService]_vars

\* The second request has ended without an object while the store shows the
\* object of the first, which was saved.
C21_Witness ==
    /\ HasObject("r1")
    /\ EndedWithoutObject("r2")
    /\ state.currentObject # Null
    /\ state.error # Null
    /\ cacheService.history # <<>>

=============================================================================
